---------------------------- MODULE Spec2Model ----------------------------
(***************************************************************************)
(* Ring assignment of square_ring.rs: arrange_targets places each target   *)
(* on the lowest-indexed ring where it keeps the ring's minimum angular    *)
(* separation from the targets already there.                              *)
(*                                                                         *)
(* f32 values are modelled in fixed point: an angle is an integer number   *)
(* of 1/Scale radians, so PI is 31416 and an azimuth of 0.5 rad is 5000.   *)
(* A BTreeMap<OrderedFloat<f32>, Target> is a function from its keys to    *)
(* the stored targets; its key order is the order of the integers.         *)
(***************************************************************************)
EXTENDS Integers, Sequences, FiniteSets

\* Fixed-point resolution of the f32 values: units per radian.
Scale == 10000

\* std::f32::consts::PI, in 1/Scale radians.
PI == 31416

\* std::f32::consts::FRAC_1_SQRT_2, in 1/Scale.
FRAC_1_SQRT_2 == 7071

\* const POI_WIDTH: f32 = 30.0
POI_WIDTH == 30

\* const SCATTER_COEF: f32 = 1.2, in tenths.
SCATTER_COEF == 12

\* PI * 2.0
PI2 == PI * 2

\* Longest input sequence explored.
MaxTargets == 4

\* ring_radius counting the rings from 2 instead of 1.
ring_radiusMut(poi_width, ring_ord) == (ring_ord + 2) * poi_width * 2

\* fn ring_radius(poi_width, ring_ord) = (ring_ord + 1) as f32 * poi_width * 2.0
ring_radius(poi_width, ring_ord) == (ring_ord + 1) * poi_width * 2

\* The argument min_angle hands to asin, in 1/Scale.
AsinArg(poi_width, ring_ord) ==
    (poi_width * FRAC_1_SQRT_2) \div ring_radius(poi_width, ring_ord)

\* f32::asin on [0, 1], by its power series
\* x + x^3/6 + 3x^5/40 + 15x^7/336 + 105x^9/3456, in 1/Scale.
asin(x) ==
    LET x2 == (x * x) \div Scale
        x3 == (x * x2) \div Scale
        x5 == (x3 * x2) \div Scale
        x7 == (x5 * x2) \div Scale
        x9 == (x7 * x2) \div Scale
    IN  x + (x3 \div 6) + ((3 * x5) \div 40) + ((15 * x7) \div 336)
          + ((105 * x9) \div 3456)

\* fn min_angle(poi_width, ring_ord) = asin(poi_width * FRAC_1_SQRT_2 / r) * 2.0 * SCATTER_COEF
min_angle(poi_width, ring_ord) ==
    (asin(AsinArg(poi_width, ring_ord)) * 2 * SCATTER_COEF) \div 10

\* Azimuths the inputs are drawn from, all in [0, 2*PI): both sides of the
\* 0/2*PI boundary, the spec's 0.01, 0.5 and 2*PI - 0.01, and the value that
\* lies exactly one minimum separation of ring 0 away from 0.
Azimuths ==
    { 0, 100, 5000, min_angle(POI_WIDTH, 0), PI, PI2 - 5000, PI2 - 100 }

\* Label widths the inputs are drawn from.
PoiWidths == { 1, POI_WIDTH }

\* Target { id, azimuth }: text and dist are never read by arrange_targets.
Target(id, azimuth) == [id |-> id, azimuth |-> azimuth]

VARIABLES
    targets,      \* the input slice: a sequence of Target
    poi_width,    \* the poi_width argument
    rings,        \* Vec<BTreeMap<OrderedFloat<f32>, Target>>
    idx,          \* position of targets.iter(): the next target, from 1
    ring_ord,     \* the loop's ring index, from 0
    ringsAtStart, \* rings.len() when the current target's loop began
    pc            \* "foreach" | "loop" | "done" | "panic"

vars == <<targets, poi_width, rings, idx, ring_ord, ringsAtStart, pc>>

\* BTreeMap::new()
EmptyRing == [k \in {} |-> 0]

SetMin(S) == CHOOSE x \in S : \A y \in S : x <= y

SetMax(S) == CHOOSE x \in S : \A y \in S : x >= y

\* The successor range opened at a instead of closed: the keys > a.
RangeFromStrict(ring, a) == { k \in DOMAIN ring : k > a }

\* ring.range(OrderedFloat(a)..): the keys >= a
RangeFrom(ring, a) == { k \in DOMAIN ring : k >= a }

\* ring.range(..OrderedFloat(a)): the keys < a
RangeTo(ring, a) == { k \in DOMAIN ring : k < a }

\* nearest.next() is Some(azi) and azi - t.azimuth < min_azi
OverlapGe(ring, a, min_azi) ==
    /\ RangeFrom(ring, a) # {}
    /\ SetMin(RangeFrom(ring, a)) - a < min_azi

\* The successor test without its wrap to the smallest key.
OverlapMinMut(ring, a, min_azi) == FALSE

\* nearest.next() is None and smallest key + PI * 2.0 - t.azimuth < min_azi
OverlapMin(ring, a, min_azi) ==
    /\ RangeFrom(ring, a) = {}
    /\ SetMin(DOMAIN ring) + PI2 - a < min_azi

\* The predecessor test with <= for <.
OverlapLtMut(ring, a, min_azi) ==
    /\ RangeTo(ring, a) # {}
    /\ a - SetMax(RangeTo(ring, a)) <= min_azi

\* nearest.next_back() is Some(azi) and t.azimuth - azi < min_azi
OverlapLt(ring, a, min_azi) ==
    /\ RangeTo(ring, a) # {}
    /\ a - SetMax(RangeTo(ring, a)) < min_azi

\* The predecessor test without its wrap to the largest key.
OverlapMaxMut(ring, a, min_azi) == FALSE

\* nearest.next_back() is None and t.azimuth + PI * 2.0 - largest key < min_azi
OverlapMax(ring, a, min_azi) ==
    /\ RangeTo(ring, a) = {}
    /\ a + PI2 - SetMax(DOMAIN ring) < min_azi

\* The four `continue` branches of one loop iteration.
Overlap(ring, a, min_azi) ==
    /\ DOMAIN ring # {}
    /\ \/ OverlapGe(ring, a, min_azi)
       \/ OverlapMin(ring, a, min_azi)
       \/ OverlapLt(ring, a, min_azi)
       \/ OverlapMax(ring, a, min_azi)

\* An insert into a fresh map instead of the ring's own.
RingInsertMut(ring, t) == [k \in {t.azimuth} |-> t]

\* ring.insert(OrderedFloat(t.azimuth), t.clone()): an equal key is replaced
RingInsert(ring, t) ==
    [k \in DOMAIN ring \cup {t.azimuth} |-> IF k = t.azimuth THEN t ELSE ring[k]]

\* The ring creation test with >= for ==.
EnsureRingMut(rs, ord) ==
    IF Len(rs) >= ord THEN Append(rs, EmptyRing) ELSE rs

\* if rings.len() == ring_ord { rings.push(BTreeMap::new()) }
EnsureRing(rs, ord) ==
    IF Len(rs) = ord THEN Append(rs, EmptyRing) ELSE rs

\* &mut rings[ring_ord] is in bounds
IndexOk(rs, ord) == ord + 1 <= Len(rs)

\* The insert indexed by 0 instead of ring_ord.
PlaceOnMut(rs, ord, t) == [rs EXCEPT ![1] = RingInsert(rs[1], t)]

\* rings[ring_ord].insert(...)
PlaceOn(rs, ord, t) == [rs EXCEPT ![ord + 1] = RingInsert(rs[ord + 1], t)]

\* A `continue` that forgets ring_ord += 1.
NextOrdMut(ord) == ord

\* ring_ord += 1
NextOrd(ord) == ord + 1

Init ==
    /\ poi_width \in PoiWidths
    /\ \E n \in 0..MaxTargets :
         \E az \in [1..n -> Azimuths] :
            targets = [i \in 1..n |-> Target(i, az[i])]
    /\ rings = <<>>
    /\ idx = 1
    /\ ring_ord = 0
    /\ ringsAtStart = 0
    /\ pc = "foreach"

\* targets.iter().for_each(|t| { let mut ring_ord = 0; loop { ...
ForEach ==
    /\ pc = "foreach"
    /\ idx <= Len(targets)
    /\ ring_ord' = 0
    /\ ringsAtStart' = Len(rings)
    /\ pc' = "loop"
    /\ UNCHANGED <<targets, poi_width, rings, idx>>

\* One iteration of the loop body for the target at idx.
Loop ==
    /\ pc = "loop"
    /\ LET t == targets[idx]
           min_azi == min_angle(poi_width, ring_ord)
           rs == EnsureRing(rings, ring_ord)
       IN  IF ~IndexOk(rs, ring_ord)
           THEN /\ pc' = "panic"
                /\ rings' = rs
                /\ UNCHANGED <<idx, ring_ord>>
           ELSE IF Overlap(rs[ring_ord + 1], t.azimuth, min_azi)
           THEN /\ ring_ord' = NextOrd(ring_ord)
                /\ rings' = rs
                /\ UNCHANGED <<idx, pc>>
           ELSE /\ rings' = PlaceOn(rs, ring_ord, t)
                /\ idx' = idx + 1
                /\ pc' = "foreach"
                /\ UNCHANGED ring_ord
    /\ UNCHANGED <<targets, poi_width, ringsAtStart>>

\* The iterator is exhausted: arrange_targets returns rings.
Return ==
    /\ pc = "foreach"
    /\ idx > Len(targets)
    /\ pc' = "done"
    /\ UNCHANGED <<targets, poi_width, rings, idx, ring_ord, ringsAtStart>>

Next == ForEach \/ Loop \/ Return

Spec == Init /\ [][Next]_vars

\* The call is sequential code: a step that can be taken is taken.
FairSpec == Spec /\ WF_vars(Next)

----------------------------------------------------------------------------
(* Vocabulary of the properties. *)

Abs(x) == IF x < 0 THEN -x ELSE x

\* Circular angular distance min(|a-b|, 2*PI - |a-b|).
CircDist(a, b) == IF Abs(a - b) <= PI2 - Abs(a - b) THEN Abs(a - b) ELSE PI2 - Abs(a - b)

\* The 0-based indices of the rings holding target id i.
RingsOf(i) ==
    { k \in 0..(Len(rings) - 1) : \E a \in DOMAIN rings[k + 1] : rings[k + 1][a].id = i }

\* Some member of the ring is closer to azimuth a than the separation m.
TooClose(ring, a, m) == \E b \in DOMAIN ring : CircDist(a, b) < m

\* Number of entries over all rings.
RECURSIVE Members(_)
Members(n) == IF n = 0 THEN 0 ELSE Cardinality(DOMAIN rings[n]) + Members(n - 1)

\* Between two targets: the iterator is at rest.
AtRest == pc \in {"foreach", "done"}

\* a and b lie on opposite sides of the 0/2*PI boundary, the short way
\* between them crossing it.
AcrossBoundary(a, b) == Abs(a - b) > PI

----------------------------------------------------------------------------
\* C1: in every state (after any prefix of the input has been placed), any
\* two distinct members of one ring k are at circular angular distance
\* >= min_angle(poi_width, k).
NoOverlap ==
    \A k \in 0..(Len(rings) - 1) :
        \A a, b \in DOMAIN rings[k + 1] :
            a # b => CircDist(a, b) >= min_angle(poi_width, k)

\* A finished run with three members on ring 0, two of them neighbours
\* through the 0/2*PI boundary, and a target that overflowed.
NoOverlapWitness ==
    /\ pc = "done"
    /\ Len(rings) >= 2
    /\ Cardinality(DOMAIN rings[1]) >= 3
    /\ \E a, b \in DOMAIN rings[1] : AcrossBoundary(a, b) /\ CircDist(a, b) < PI

\* C2: when arrange_targets returns, every input target is stored on exactly
\* one ring, once, and the rings hold as many entries as there are targets.
Conservation ==
    pc = "done" =>
        /\ \A i \in 1..Len(targets) :
              /\ Cardinality(RingsOf(i)) = 1
              /\ \A k \in RingsOf(i) :
                    /\ targets[i].azimuth \in DOMAIN rings[k + 1]
                    /\ rings[k + 1][targets[i].azimuth] = targets[i]
        /\ Members(Len(rings)) = Len(targets)

\* A finished run of a full-length input in which two targets share an
\* azimuth and some target overflowed.
ConservationWitness ==
    /\ pc = "done"
    /\ Len(targets) = MaxTargets
    /\ \E i, j \in 1..Len(targets) : i # j /\ targets[i].azimuth = targets[j].azimuth
    /\ Len(rings) >= 2

\* C3: first fit. While a target is in its loop every ring below ring_ord
\* holds a member closer to it than that ring's minimum separation, the
\* neighbour test on the ring at ring_ord reports a conflict exactly when
\* some member of that ring is closer than the ring's minimum separation,
\* and the target placed last sits on a ring where it conflicts with no
\* other member while every lower ring holds a member that conflicts.
FirstFit ==
    /\ pc = "loop" =>
          /\ \A j \in 0..(ring_ord - 1) :
                TooClose(rings[j + 1], targets[idx].azimuth, min_angle(poi_width, j))
          /\ ring_ord < Len(rings) =>
                (Overlap(rings[ring_ord + 1], targets[idx].azimuth,
                         min_angle(poi_width, ring_ord))
                 <=> TooClose(rings[ring_ord + 1], targets[idx].azimuth,
                              min_angle(poi_width, ring_ord)))
    /\ (AtRest /\ idx > 1) =>
          \A k \in RingsOf(idx - 1) :
              /\ \A j \in 0..(k - 1) :
                    TooClose(rings[j + 1], targets[idx - 1].azimuth, min_angle(poi_width, j))
              /\ \A b \in DOMAIN rings[k + 1] \ {targets[idx - 1].azimuth} :
                    CircDist(targets[idx - 1].azimuth, b) >= min_angle(poi_width, k)

\* The last target went to ring 1 past a ring 0 that holds two members, and
\* to a ring 1 that already held a member.
FirstFitWitness ==
    /\ AtRest
    /\ idx > 1
    /\ RingsOf(idx - 1) = {1}
    /\ Cardinality(DOMAIN rings[1]) >= 2
    /\ Cardinality(DOMAIN rings[2]) >= 2

\* C4 as stated: two members of one ring are never on opposite sides of the
\* 0/2*PI boundary at a circular distance below ring 0's minimum separation.
WrapNeverTogether ==
    \A k \in 0..(Len(rings) - 1) :
        \A a, b \in DOMAIN rings[k + 1] :
            ~(AcrossBoundary(a, b) /\ CircDist(a, b) < min_angle(poi_width, 0))

\* C4, amended: a target and a member of ring k on opposite sides of the
\* 0/2*PI boundary at a circular distance below ring k's minimum separation
\* are reported as conflicting, whichever of the two came first, and no two
\* such members are ever together on ring k.
WrapAround ==
    /\ pc = "loop" /\ ring_ord < Len(rings) =>
          \A b \in DOMAIN rings[ring_ord + 1] :
              (/\ AcrossBoundary(targets[idx].azimuth, b)
               /\ CircDist(targets[idx].azimuth, b) < min_angle(poi_width, ring_ord))
              => Overlap(rings[ring_ord + 1], targets[idx].azimuth,
                         min_angle(poi_width, ring_ord))
    /\ \A k \in 0..(Len(rings) - 1) :
          \A a, b \in DOMAIN rings[k + 1] :
              ~(AcrossBoundary(a, b) /\ CircDist(a, b) < min_angle(poi_width, k))

\* 0.01 and 2*PI - 0.01 were both placed, the larger one first, and sit on
\* different rings.
WrapAroundWitness ==
    /\ pc = "done"
    /\ Len(targets) >= 2
    /\ targets[1].azimuth = PI2 - 100
    /\ targets[2].azimuth = 100
    /\ RingsOf(1) = {0}
    /\ RingsOf(2) = {1}

\* C5: two placed targets with the same azimuth are both stored, each under
\* its own id, on different rings: the later one was never inserted over the
\* earlier one.
DuplicateAzimuth ==
    \A i, j \in 1..(idx - 1) :
        (i # j /\ targets[i].azimuth = targets[j].azimuth) =>
            /\ Cardinality(RingsOf(i)) = 1
            /\ Cardinality(RingsOf(j)) = 1
            /\ RingsOf(i) # RingsOf(j)

\* Three targets of one azimuth have been placed.
DuplicateAzimuthWitness ==
    /\ AtRest
    /\ \E i, j, l \in 1..(idx - 1) :
          /\ i < j /\ j < l
          /\ targets[i].azimuth = targets[j].azimuth
          /\ targets[j].azimuth = targets[l].azimuth
          /\ RingsOf(i) = {0} /\ RingsOf(j) = {1} /\ RingsOf(l) = {2}

\* The argument of asin stays in [0, 1] on every ring index the loop visits.
AsinArgInDomain ==
    /\ AsinArg(poi_width, ring_ord) >= 0
    /\ AsinArg(poi_width, ring_ord) <= Scale

\* C7: every run reaches the return, and a target's loop never looks at a
\* ring index above the number of rings that existed when the target began
\* (so it examines at most that number + 1 indices) and never panics.
Termination ==
    /\ <>(pc = "done")
    /\ [](pc = "loop" => ring_ord <= ringsAtStart)
    /\ [](pc # "panic")

\* A full-length input of one azimuth, finished: the last target examined
\* every existing ring and one more.
TerminationWitness ==
    /\ pc = "done"
    /\ Len(targets) = MaxTargets
    /\ \A i \in 1..Len(targets) : targets[i].azimuth = targets[1].azimuth
    /\ ring_ord = ringsAtStart
    /\ Len(rings) = MaxTargets

\* Every entry of ring `old` is an entry of ring `new`.
Kept(old, new) == \A a \in DOMAIN old : a \in DOMAIN new /\ new[a] = old[a]

\* C8: a step never changes the input, never removes or alters an entry of a
\* ring, and never removes a ring; the step that places a target adds
\* exactly one entry, that target under its own azimuth, to exactly one ring
\* and leaves every other ring as it was; any other step adds no entry; and
\* every stored entry is keyed by the azimuth of the input target it holds.
AppendOnly ==
    [][ /\ targets' = targets
        /\ Len(rings') >= Len(rings)
        /\ \A k \in 1..Len(rings) : Kept(rings[k], rings'[k])
        /\ IF idx' = idx + 1
           THEN \E k \in 1..Len(rings') :
                   /\ targets[idx].azimuth \in DOMAIN rings'[k]
                   /\ rings'[k][targets[idx].azimuth] = targets[idx]
                   /\ DOMAIN rings'[k] =
                        (IF k <= Len(rings) THEN DOMAIN rings[k] ELSE {})
                           \cup {targets[idx].azimuth}
                   /\ targets[idx].azimuth \notin
                        (IF k <= Len(rings) THEN DOMAIN rings[k] ELSE {})
                   /\ \A j \in 1..Len(rings') \ {k} :
                         IF j <= Len(rings) THEN rings'[j] = rings[j]
                                            ELSE DOMAIN rings'[j] = {}
           ELSE \A k \in 1..Len(rings') :
                   IF k <= Len(rings) THEN rings'[k] = rings[k]
                                      ELSE DOMAIN rings'[k] = {}
        /\ \A k \in 1..Len(rings') : \A a \in DOMAIN rings'[k] :
              /\ rings'[k][a].id \in 1..Len(targets)
              /\ rings'[k][a] = targets[rings'[k][a].id]
              /\ rings'[k][a].azimuth = a
      ]_vars

\* A target has just been added to a ring that already held two others,
\* with another ring in existence.
AppendOnlyWitness ==
    /\ AtRest
    /\ idx > 1
    /\ Len(rings) >= 2
    /\ \E k \in RingsOf(idx - 1) : Cardinality(DOMAIN rings[k + 1]) >= 3

\* C9: an input of exactly two targets whose circular separation d satisfies
\* min_angle(poi_width, 1) <= d < min_angle(poi_width, 0) ends with exactly
\* two rings, the first target alone on ring 0 and the second alone on ring 1;
\* poi_width = 30 with azimuths 0.0 and 0.5 is such an input.
ThresholdScenario ==
    /\ (/\ pc = "done"
        /\ poi_width = POI_WIDTH
        /\ Len(targets) = 2
        /\ targets[1].azimuth = 0
        /\ targets[2].azimuth = 5000)
       => (/\ Len(rings) = 2
           /\ DOMAIN rings[1] = {0}
           /\ DOMAIN rings[2] = {5000})
    /\ (/\ pc = "done"
        /\ Len(targets) = 2
        /\ CircDist(targets[1].azimuth, targets[2].azimuth) >= min_angle(poi_width, 1)
        /\ CircDist(targets[1].azimuth, targets[2].azimuth) < min_angle(poi_width, 0))
       => (/\ Len(rings) = 2
           /\ rings[1] = [a \in {targets[1].azimuth} |-> targets[1]]
           /\ rings[2] = [a \in {targets[2].azimuth} |-> targets[2]])

\* The spec's scenario: poi_width = 30, azimuths 0.0 and 0.5, finished.
ThresholdScenarioWitness ==
    /\ pc = "done"
    /\ poi_width = POI_WIDTH
    /\ Len(targets) = 2
    /\ targets[1].azimuth = 0
    /\ targets[2].azimuth = 5000
    /\ Len(rings) = 2

\* C10: the loop never indexes past the end of rings; between targets every
\* ring is non-empty and there are no more rings than placed targets; an
\* empty input returns no ring and a one-target input returns ring 0 with
\* that one member; and a step that creates a ring creates exactly one, the
\* ring at ring_ord, at the end of the sequence.
LazyRings ==
    /\ [](/\ pc # "panic"
          /\ pc = "loop" => ring_ord <= Len(rings)
          /\ AtRest =>
                /\ \A k \in 1..Len(rings) : DOMAIN rings[k] # {}
                /\ Len(rings) <= idx - 1
          /\ (pc = "done" /\ Len(targets) = 0) => rings = <<>>
          /\ (pc = "done" /\ Len(targets) = 1) =>
                rings = <<[a \in {targets[1].azimuth} |-> targets[1]]>>)
    /\ [][Len(rings') # Len(rings) =>
             /\ Len(rings') = Len(rings) + 1
             /\ Len(rings') = ring_ord + 1]_vars

\* A finished run that created three rings for more than three targets.
LazyRingsWitness ==
    /\ pc = "done"
    /\ Len(rings) = 3
    /\ Len(targets) > 3

=============================================================================
